---- MODULE Spec2Model ----
(***************************************************************************)
(* Model of the ingestion / identifier-normalisation / aggregation         *)
(* pipeline of src/main.py: the two loaders (load_environment_data,        *)
(* load_growth_data) and the data steps of main().  Text is modelled as    *)
(* sequences of Unicode code points; unicodedata.normalize is modelled by  *)
(* the Hangul syllable (de)composition arithmetic of the Unicode standard. *)
(***************************************************************************)
EXTENDS Integers, Sequences, FiniteSets, TLC

VARIABLES
    dirExists,      \* data_dir.exists()
    dir,            \* data_dir.iterdir(): sequence of directory entries
    pc,             \* position of the script
    idx,            \* loop index (school in the env loader, sheet in the growth loader)
    env_data,       \* dict of load_environment_data: [keys: insertion order, tab: key -> rows]
    growth_data,    \* dict of load_growth_data
    excel_file,     \* index in dir of the located workbook, 0 for None
    msgs,           \* messages shown with st.error / st.warning, in order
    selected_school,
    out,            \* values computed by main(): summaries, merged tables, optimum
    err,            \* unhandled exception that ended the script, "" when none
    rs              \* state of one isolated name resolution (SpecResolve)

vars == <<dirExists, dir, pc, idx, env_data, growth_data, excel_file, msgs,
          selected_school, out, err, rs>>

----------------------------------------------------------------------------
(* Bounds of the model *)

\* number of data rows of the longer tables offered as file contents
MaxRows == 2
\* largest measurement value offered as file content
MaxVal == 3

----------------------------------------------------------------------------
(* unicodedata.normalize on Hangul: code point arithmetic *)

SBase == 44032
LBase == 4352
VBase == 4449
TBase == 4519
VCount == 21
TCount == 28
SCount == 11172

IsSyllable(c) == c >= SBase /\ c < SBase + SCount
IsL(c) == c >= LBase /\ c < LBase + 19
IsV(c) == c >= VBase /\ c < VBase + VCount
IsT(c) == c > TBase /\ c < TBase + TCount
IsLV(c) == IsSyllable(c) /\ (c - SBase) % TCount = 0

\* canonical decomposition of one code point
Decompose(c) ==
    IF IsSyllable(c)
    THEN LET si == c - SBase
             l  == LBase + si \div (VCount * TCount)
             v  == VBase + (si % (VCount * TCount)) \div TCount
             t  == TBase + (si % TCount)
         IN IF t = TBase THEN <<l, v>> ELSE <<l, v, t>>
    ELSE <<c>>

RECURSIVE NFD(_)
NFD(s) == IF s = <<>> THEN <<>> ELSE Decompose(Head(s)) \o NFD(Tail(s))

\* canonical composition of an already decomposed string, left to right
RECURSIVE ComposeFrom(_, _)
ComposeFrom(acc, s) ==
    IF s = <<>> THEN acc
    ELSE LET c == Head(s)
             n == Len(acc)
             last == IF n = 0 THEN 0 ELSE acc[n]
         IN IF n > 0 /\ IsL(last) /\ IsV(c)
            THEN ComposeFrom(
                   [acc EXCEPT ![n] = SBase + ((last - LBase) * VCount + (c - VBase)) * TCount],
                   Tail(s))
            ELSE IF n > 0 /\ IsLV(last) /\ IsT(c)
            THEN ComposeFrom([acc EXCEPT ![n] = last + (c - TBase)], Tail(s))
            ELSE ComposeFrom(Append(acc, c), Tail(s))

NFC(s) == ComposeFrom(<<>>, NFD(s))

\* str.lower() on the ASCII letters
Lower(s) == [i \in 1..Len(s) |-> IF s[i] >= 65 /\ s[i] <= 90 THEN s[i] + 32 ELSE s[i]]

\* pathlib's PurePath.suffix: from the last dot, unless it leads or ends the name
LastDot(s) ==
    LET ds == {i \in 1..Len(s) : s[i] = 46}
    IN IF ds = {} THEN 0 ELSE CHOOSE i \in ds : \A j \in ds : j <= i
Suffix(s) ==
    LET d == LastDot(s)
    IN IF d <= 1 \/ d = Len(s) THEN <<>> ELSE SubSeq(s, d, Len(s))

----------------------------------------------------------------------------
(* SCHOOL_INFO and the fixed names *)

Schools == <<"Songdo", "Haneul", "Ara", "Dongsan">>
SchoolSet == {Schools[i] : i \in 1..Len(Schools)}

SCHOOL_INFO ==
    [Songdo  |-> [ec |-> 1, name |-> <<49569, 46020, 44256>>],
     Haneul  |-> [ec |-> 2, name |-> <<54616, 45720, 44256>>],
     Ara     |-> [ec |-> 4, name |-> <<50500, 46972, 44256>>],
     Dongsan |-> [ec |-> 8, name |-> <<46041, 49328, 44256>>]]

ALL == "ALL"

EnvSuffix == <<95, 54872, 44221, 45936, 51060, 53552, 46, 99, 115, 118>>
CsvExt == <<46, 99, 115, 118>>
EnvFileName(school_name) == SCHOOL_INFO[school_name].name \o EnvSuffix
WorkbookName ==
    <<52, 44060, 44368, 95, 49373, 50977, 44208, 44284, 45936, 51060, 53552,
      46, 120, 108, 115, 120>>

----------------------------------------------------------------------------
(* Names.  A name is told by the text it spells (kind, who) and the encoding *)
(* it is stored in (form); the program only ever sees its code points,       *)
(* StoredName.                                                               *)

\* the encodings one text can be stored in: composed, decomposed, or mixed
\* (every other code point decomposed)
Forms == {"NFC", "NFD", "MIX"}
RECURSIVE RenderMix(_, _)
RenderMix(s, odd) ==
    IF s = <<>> THEN <<>>
    ELSE (IF odd THEN Decompose(Head(s)) ELSE <<Head(s)>>) \o RenderMix(Tail(s), ~odd)
Render(text, form) ==
    IF form = "NFC" THEN text ELSE IF form = "NFD" THEN NFD(text) ELSE RenderMix(text, TRUE)

\* texts that are not the name of any registered school's file or sheet
UpperExt(name) == SubSeq(name, 1, Len(name) - 3) \o <<67, 83, 86>>
OtherFinal(name) ==
    <<IF IsLV(name[1]) THEN name[1] + 1 ELSE name[1] - ((name[1] - SBase) % TCount)>>
    \o Tail(name)

Name(kind, who, form) == [kind |-> kind, who |-> who, form |-> form]
NameIds ==
    [kind : {"env", "envUpper", "envOther", "bare", "school", "schoolOther"},
     who : SchoolSet, form : Forms]
    \cup [kind : {"book"}, who : {"book"}, form : Forms]

\* the text a name spells, composed
Text(n) ==
    IF n.kind = "book" THEN WorkbookName
    ELSE IF n.kind = "env" THEN EnvFileName(n.who)
    ELSE IF n.kind = "envUpper" THEN UpperExt(EnvFileName(n.who))
    ELSE IF n.kind = "envOther" THEN OtherFinal(EnvFileName(n.who))
    ELSE IF n.kind = "bare" THEN SCHOOL_INFO[n.who].name \o CsvExt
    ELSE IF n.kind = "school" THEN SCHOOL_INFO[n.who].name
    ELSE OtherFinal(SCHOOL_INFO[n.who].name)

\* the code points of a name as stored: file_path.name, sheet_name, a literal
StoredName == [n \in NameIds |-> Render(Text(n), n.form)]

\* the literals of the source, which is written composed
EnvTarget(school_name) == Name("env", school_name, "NFC")
BookTarget == Name("book", "book", "NFC")
SchoolTarget(school_name) == Name("school", school_name, "NFC")

----------------------------------------------------------------------------
(* normalize_filename and the name test *)

\* unicodedata.normalize of every name, by form
NFCTable == [n \in NameIds |-> NFC(StoredName[n])]
NFDTable == [n \in NameIds |-> NFD(StoredName[n])]

normalize_filename(filename, form) ==
    IF form = "NFC" THEN NFCTable[filename] ELSE NFDTable[filename]

\* the raw comparison a resolver without normalisation would make
NameMatchesRaw(candidate, target) == StoredName[candidate] = StoredName[target]

\* the test of lines 54-59, 89-94 and 106-113
NameMatches(candidate, target) ==
    \/ normalize_filename(candidate, "NFC") = normalize_filename(target, "NFC")
    \/ normalize_filename(candidate, "NFD") = normalize_filename(target, "NFD")

----------------------------------------------------------------------------
(* Directory contents offered to the program *)

\* file contents: temperature readings / fresh weights, one per data row
NoRows == <<>>
SameRows == [i \in 1..MaxRows |-> MaxVal]
LowRows == <<1>>
OneRow == <<MaxVal - 1>>
HighRows == <<MaxVal>>
LongRows == [i \in 1..MaxRows |-> IF i = 1 THEN 1 ELSE MaxVal]

\* a directory entry: its name, is_file(), whether it can be read, its rows
\* (a csv file) or its sheets (a workbook)
Entry(name, isFile, ok, rows, sheets) ==
    [name |-> name, isFile |-> isFile, ok |-> ok, rows |-> rows, sheets |-> sheets]
Csv(s, form, ok, rows) == Entry(Name("env", s, form), TRUE, ok, rows, <<>>)
Sheet(name, ok, rows) == [name |-> name, ok |-> ok, rows |-> rows]

\* what the directory may hold for one school's environment file
EnvChoices(s) ==
    {<<>>, <<Csv(s, "NFC", TRUE, SameRows)>>}
    \cup (IF s = "Songdo"
          THEN {<<Csv(s, "NFD", TRUE, NoRows)>>,
                <<Csv(s, "MIX", FALSE, NoRows),
                  Entry(Name("envUpper", s, "NFC"), TRUE, TRUE, LowRows, <<>>)>>,
                <<Csv(s, "NFD", FALSE, NoRows), Csv(s, "NFC", TRUE, LowRows)>>}
          ELSE IF s = "Haneul"
          THEN {<<Entry(Name("env", s, "NFC"), FALSE, FALSE, NoRows, <<>>),
                  Csv(s, "NFD", TRUE, LongRows)>>}
          ELSE IF s = "Ara"
          THEN {<<Csv(s, "MIX", TRUE, NoRows)>>,
                <<Entry(Name("envOther", s, "NFD"), TRUE, TRUE, LowRows, <<>>)>>}
          ELSE {})

\* what the workbook may hold for one school's sheet
SheetChoices(s) ==
    {<<>>}
    \cup (IF s = "Songdo"
          THEN {<<Sheet(Name("school", s, "NFC"), TRUE, LowRows)>>,
                <<Sheet(Name("school", s, "NFD"), TRUE, NoRows)>>}
          ELSE IF s = "Haneul"
          THEN {<<Sheet(Name("school", s, "NFC"), TRUE, OneRow)>>,
                <<Sheet(Name("school", s, "NFD"), TRUE, LongRows)>>}
          ELSE IF s = "Ara"
          THEN {<<Sheet(Name("school", s, "MIX"), TRUE, OneRow)>>,
                <<Sheet(Name("school", s, "NFC"), TRUE, LongRows)>>}
          ELSE {<<Sheet(Name("school", s, "NFD"), TRUE, HighRows)>>,
                <<Sheet(Name("school", s, "NFC"), FALSE, NoRows)>>})

\* a sheet whose name is no school's name
OtherSheet == Sheet(Name("schoolOther", "Songdo", "NFC"), TRUE, LowRows)

FullSheets ==
    <<Sheet(Name("school", "Songdo", "NFD"), TRUE, LowRows),
      Sheet(Name("school", "Haneul", "NFC"), TRUE, LongRows),
      Sheet(Name("school", "Ara", "NFC"), TRUE, OneRow),
      Sheet(Name("school", "Dongsan", "NFC"), TRUE, LowRows)>>

Workbooks ==
    {<<>>}
    \cup {<<Entry(Name("book", "book", "NFC"), TRUE, FALSE, NoRows, <<>>)>>}
    \cup {<<Entry(Name("book", "book", "NFD"), TRUE, TRUE, NoRows, FullSheets)>>}
    \cup {<<Entry(Name("book", "book", "NFC"), TRUE, TRUE, NoRows,
                  <<OtherSheet>> \o a \o b \o c \o d)>> :
            a \in SheetChoices("Songdo"), b \in SheetChoices("Haneul"),
            c \in SheetChoices("Ara"), d \in SheetChoices("Dongsan")}

\* data_dir.iterdir(): the entries of the schools' files and of the workbook
Directory(a, b, w, c, d) == a \o b \o w \o c \o d

\* names offered to one isolated resolution
FileNames == [kind : {"env", "envUpper", "envOther", "bare"}, who : SchoolSet, form : Forms]
             \cup [kind : {"book"}, who : {"book"}, form : Forms]
SheetNames == [kind : {"school", "schoolOther", "env"}, who : SchoolSet, form : Forms]

----------------------------------------------------------------------------
(* Python dicts keep insertion order: keys in order, and the value of each *)

EmptyDict == [keys |-> <<>>, tab |-> [s \in {} |-> <<>>]]
InDict(d, k) == k \in DOMAIN d.tab
DictSet(d, k, v) ==
    [keys |-> IF InDict(d, k) THEN d.keys ELSE Append(d.keys, k),
     tab  |-> [x \in DOMAIN d.tab \cup {k} |-> IF x = k THEN v ELSE d.tab[x]]]

\* st.error / st.warning: who shows it (src), and about which school or file
Msg(src, kind, about) == [src |-> src, kind |-> kind, about |-> about]

\* the values main() has computed so far: has names the ones that are set
NoOut ==
    [has |-> {}, total_samples |-> 0, optimal_ec |-> 0, env_summary |-> <<>>,
     display_env |-> <<>>, growth_combined |-> <<>>, ec_biomass |-> <<>>,
     best_ec |-> 0, growth_summary |-> <<>>, display_growth |-> <<>>]

Init ==
    /\ \/ dirExists = FALSE /\ dir = <<>>
       \/ /\ dirExists = TRUE
          /\ \E a \in EnvChoices("Songdo"), b \in EnvChoices("Haneul"),
                c \in EnvChoices("Ara"), d \in EnvChoices("Dongsan"),
                w \in Workbooks :
               dir = Directory(a, b, w, c, d)
    /\ pc = "env"
    /\ idx = 1
    /\ env_data = EmptyDict
    /\ growth_data = EmptyDict
    /\ excel_file = 0
    /\ msgs = <<>>
    /\ selected_school = ALL
    /\ out = NoOut
    /\ err = ""
    /\ rs = [phase |-> "idle"]

----------------------------------------------------------------------------
(* load_environment_data *)

TagEnv(rows, school_name) ==
    [i \in 1..Len(rows) |-> [school |-> school_name, temperature |-> rows[i]]]

\* the inner loop of lines 50-67 from entry k on: the first matching file that
\* reads ends the scan; each matching file that fails to read is an error
RECURSIVE ScanEnv(_, _, _)
ScanEnv(d, school_name, k) ==
    IF k > Len(d) THEN [found |-> FALSE, rows |-> <<>>, errors |-> 0]
    ELSE IF ~d[k].isFile \/ Lower(Suffix(StoredName[d[k].name])) # CsvExt
    THEN ScanEnv(d, school_name, k + 1)
    ELSE IF NameMatches(d[k].name, EnvTarget(school_name))
    THEN IF d[k].ok
         THEN [found |-> TRUE, rows |-> d[k].rows, errors |-> 0]
         ELSE LET r == ScanEnv(d, school_name, k + 1)
              IN [r EXCEPT !.errors = @ + 1]
    ELSE ScanEnv(d, school_name, k + 1)

\* the messages of one pass of the outer loop
EnvMsgs(school_name, r) ==
    [i \in 1..r.errors |-> Msg("env", "error", school_name)]
    \o (IF r.found THEN <<>> ELSE <<Msg("env", "warning", school_name)>>)

\* a loop that ends at the first school whose file was not found
EnvAfterStop(i, r) == IF i = Len(Schools) \/ ~r.found THEN "growth" ELSE "env"

\* line 48: the loop goes on to the next school whatever the pass found
EnvAfter(i, r) == IF i = Len(Schools) THEN "growth" ELSE "env"

\* lines 44-46: no data folder
EnvNoDir ==
    /\ pc = "env"
    /\ ~dirExists
    /\ msgs' = Append(msgs, Msg("env", "error", "data"))
    /\ pc' = "growth"
    /\ UNCHANGED <<dirExists, dir, idx, env_data, growth_data, excel_file,
                   selected_school, out, err, rs>>

\* lines 48-70: one pass of the loop over SCHOOL_INFO.keys()
EnvLoadSchool ==
    /\ pc = "env"
    /\ dirExists
    /\ idx <= Len(Schools)
    /\ LET school_name == Schools[idx]
           r == ScanEnv(dir, school_name, 1)
       IN /\ env_data' = IF r.found
                         THEN DictSet(env_data, school_name, TagEnv(r.rows, school_name))
                         ELSE env_data
          /\ msgs' = msgs \o EnvMsgs(school_name, r)
          /\ pc' = EnvAfter(idx, r)
          /\ idx' = IF EnvAfter(idx, r) = "growth" THEN 1 ELSE idx + 1
    /\ UNCHANGED <<dirExists, dir, growth_data, excel_file, selected_school,
                   out, err, rs>>

----------------------------------------------------------------------------
(* load_growth_data *)

\* a stamp that gives every row the level of the registry's first school
TagGrowthFirstLevel(rows, school_name) ==
    [i \in 1..Len(rows) |->
        [school |-> school_name, EC |-> SCHOOL_INFO[Schools[1]].ec, weight |-> rows[i]]]

\* lines 115-116: every row gets the school and the registry's level of it
TagGrowth(rows, school_name) ==
    [i \in 1..Len(rows) |->
        [school |-> school_name, EC |-> SCHOOL_INFO[school_name].ec, weight |-> rows[i]]]

\* lines 85-96: the first file whose name matches the workbook's, 0 for None
LocateWorkbook(d) ==
    LET hits == {k \in 1..Len(d) : d[k].isFile /\ NameMatches(d[k].name, BookTarget)}
    IN IF hits = {} THEN 0 ELSE CHOOSE k \in hits : \A j \in hits : k <= j

\* lines 109-118: the first school, in registry order, the sheet name matches
MatchSchool(sheet_name) ==
    LET hits == {i \in 1..Len(Schools) :
                    NameMatches(sheet_name, SchoolTarget(Schools[i]))}
    IN IF hits = {} THEN ""
       ELSE Schools[CHOOSE i \in hits : \A j \in hits : i <= j]

\* lines 80-82: no data folder
GrowthNoDir ==
    /\ pc = "growth"
    /\ ~dirExists
    /\ msgs' = Append(msgs, Msg("growth", "error", "data"))
    /\ pc' = "guard"
    /\ UNCHANGED <<dirExists, dir, idx, env_data, growth_data, excel_file,
                   selected_school, out, err, rs>>

\* lines 84-103: locate the workbook and open it
GrowthLocate ==
    /\ pc = "growth"
    /\ dirExists
    /\ LET k == LocateWorkbook(dir)
       IN /\ excel_file' = k
          /\ IF k = 0
             THEN /\ msgs' = Append(msgs, Msg("growth", "error", "book"))
                  /\ pc' = "guard"
             ELSE IF ~dir[k].ok
             THEN /\ msgs' = Append(msgs, Msg("growth", "error", "growth"))
                  /\ pc' = "guard"
             ELSE /\ msgs' = msgs
                  /\ pc' = IF dir[k].sheets = <<>> THEN "guard" ELSE "sheets"
    /\ idx' = 1
    /\ UNCHANGED <<dirExists, dir, env_data, growth_data, selected_school,
                   out, err, rs>>

\* lines 105-121: one pass of the loop over sheet_names
GrowthLoadSheet ==
    /\ pc = "sheets"
    /\ LET sheets == dir[excel_file].sheets
           sheet == sheets[idx]
           school_name == MatchSchool(sheet.name)
       IN IF school_name = ""
          THEN /\ UNCHANGED <<growth_data, msgs>>
               /\ pc' = IF idx = Len(sheets) THEN "guard" ELSE "sheets"
          ELSE IF sheet.ok
          THEN /\ growth_data' =
                    DictSet(growth_data, school_name, TagGrowth(sheet.rows, school_name))
               /\ msgs' = msgs
               /\ pc' = IF idx = Len(sheets) THEN "guard" ELSE "sheets"
          ELSE /\ growth_data' = growth_data
               /\ msgs' = Append(msgs, Msg("growth", "error", "growth"))
               /\ pc' = "guard"
    /\ idx' = idx + 1
    /\ UNCHANGED <<dirExists, dir, env_data, excel_file, selected_school,
                   out, err, rs>>

----------------------------------------------------------------------------
(* pandas operations used by main() *)

RECURSIVE SumSeq(_)
SumSeq(q) == IF q = <<>> THEN 0 ELSE Head(q) + SumSeq(Tail(q))

\* concatenation that drops rows equal to an earlier row
RECURSIVE Dedup(_)
Dedup(q) ==
    IF q = <<>> THEN <<>>
    ELSE LET r == Dedup(SubSeq(q, 1, Len(q) - 1))
             x == q[Len(q)]
         IN IF \E i \in 1..Len(r) : r[i] = x THEN r ELSE Append(r, x)
RECURSIVE ConcatAll(_, _)
ConcatAll(tab, keys) ==
    IF keys = <<>> THEN <<>> ELSE tab[Head(keys)] \o ConcatAll(tab, Tail(keys))
ConcatDedup(d) == Dedup(ConcatAll(d.tab, d.keys))

\* pd.concat(d.values(), ignore_index=True): the tables one after the other,
\* in the dict's order
Concat(d) == ConcatAll(d.tab, d.keys)

RECURSIVE SortAsc(_)
SortAsc(S) ==
    IF S = {} THEN <<>>
    ELSE LET m == CHOOSE x \in S : \A y \in S : x <= y
         IN <<m>> \o SortAsc(S \ {m})

\* a mean is kept as the pair (sum, n); n = 0 is NaN
Mean(values) == [sum |-> SumSeq(values), n |-> Len(values)]
IsNaN(m) == m.n = 0
MeanLeq(a, b) == a.sum * b.n <= b.sum * a.n

\* groupby('EC')[weight].mean(): one entry per level present, levels ascending
GroupByEC(rows) ==
    LET ks == SortAsc({rows[i].EC : i \in 1..Len(rows)})
    IN [i \in 1..Len(ks) |->
          LET g == SelectSeq(rows, LAMBDA r : r.EC = ks[i])
          IN [EC |-> ks[i], mean |-> Mean([j \in 1..Len(g) |-> g[j].weight]),
              count |-> Len(g)]]

\* Series.idxmax(): the label of the first occurrence of the maximum
IdxMax(series) ==
    LET best == {i \in 1..Len(series) :
                    \A j \in 1..Len(series) : MeanLeq(series[j].mean, series[i].mean)}
    IN series[CHOOSE i \in best : \A j \in best : i <= j].EC

\* sort_values(ascending=False) with the default, unstable sort: every
\* arrangement with non-increasing values is a possible result
SortedDescending(series) ==
    LET n == Len(series)
        perms == {p \in [1..n -> 1..n] : \A i, j \in 1..n : i # j => p[i] # p[j]}
    IN {[i \in 1..n |-> series[p[i]]] : p \in
          {q \in perms : \A i \in 1..(n - 1) :
              MeanLeq(series[q[i + 1]].mean, series[q[i]].mean)}}

\* either loader came back with nothing only when both did
PipelineEmptyBoth(env, growth) == env.keys = <<>> /\ growth.keys = <<>>

\* line 134: not env_data or not growth_data
PipelineEmpty(env, growth) == env.keys = <<>> \/ growth.keys = <<>>

\* lines 207-217: one row per key of env_data, in the dict's order
EnvSummary(env) ==
    [i \in 1..Len(env.keys) |->
        LET school == env.keys[i]
            df == env.tab[school]
        IN [school |-> school,
            avg_temperature |-> Mean([j \in 1..Len(df) |-> df[j].temperature]),
            target_ec |-> SCHOOL_INFO[school].ec]]

----------------------------------------------------------------------------
(* main() *)

\* lines 134-136
MainGuard ==
    /\ pc = "guard"
    /\ IF PipelineEmpty(env_data, growth_data)
       THEN /\ msgs' = Append(msgs, Msg("main", "error", "pipeline"))
            /\ pc' = "aborted"
       ELSE /\ msgs' = msgs
            /\ pc' = "sidebar"
    /\ UNCHANGED <<dirExists, dir, idx, env_data, growth_data, excel_file,
                   selected_school, out, err, rs>>

\* lines 140-141: the selectbox
Sidebar ==
    /\ pc = "sidebar"
    /\ selected_school' \in {ALL} \cup SchoolSet
    /\ pc' = "tab1"
    /\ UNCHANGED <<dirExists, dir, idx, env_data, growth_data, excel_file,
                   msgs, out, err, rs>>

\* lines 147-198: the overview tab; idxmax raises on an empty series
Tab1 ==
    /\ pc = "tab1"
    /\ LET growth_combined == Concat(growth_data)
           avg_biomass == GroupByEC(growth_combined)
       IN IF avg_biomass = <<>>
          THEN /\ out' = [out EXCEPT !.has = @ \cup {"total_samples"},
                                     !.total_samples = Len(growth_combined)]
               /\ err' = "ValueError"
               /\ pc' = "crashed"
          ELSE /\ out' = [out EXCEPT !.has = @ \cup {"total_samples", "optimal_ec"},
                                     !.total_samples = Len(growth_combined),
                                     !.optimal_ec = IdxMax(avg_biomass)]
               /\ err' = err
               /\ pc' = "tab2"
    /\ UNCHANGED <<dirExists, dir, idx, env_data, growth_data, excel_file,
                   msgs, selected_school, rs>>

\* lines 201-374: the environment tab; env_data[selected_school] raises
\* KeyError when the selected school was not loaded
Tab2 ==
    /\ pc = "tab2"
    /\ IF selected_school # ALL /\ ~InDict(env_data, selected_school)
       THEN /\ out' = [out EXCEPT !.has = @ \cup {"env_summary"},
                                  !.env_summary = EnvSummary(env_data)]
            /\ err' = "KeyError"
            /\ pc' = "crashed"
       ELSE /\ out' = [out EXCEPT !.has = @ \cup {"env_summary", "display_env"},
                                  !.env_summary = EnvSummary(env_data),
                                  !.display_env =
                                      IF selected_school = ALL THEN Concat(env_data)
                                      ELSE env_data.tab[selected_school]]
            /\ err' = err
            /\ pc' = "tab3"
    /\ UNCHANGED <<dirExists, dir, idx, env_data, growth_data, excel_file,
                   msgs, selected_school, rs>>

\* lines 377-584: the growth tab; growth_data[school] raises KeyError in the
\* loop of line 484 when a registered school was not loaded
Tab3 ==
    /\ pc = "tab3"
    /\ LET growth_combined == Concat(growth_data)
           series == GroupByEC(growth_combined)
           computed == {"growth_combined", "ec_biomass", "best_ec", "growth_summary"}
       IN \E ec_biomass \in SortedDescending(series) :
            LET o == [out EXCEPT !.has = @ \cup computed,
                                 !.growth_combined = growth_combined,
                                 !.ec_biomass = ec_biomass,
                                 !.best_ec = IdxMax(ec_biomass),
                                 !.growth_summary = series]
            IN IF \E i \in 1..Len(Schools) : ~InDict(growth_data, Schools[i])
               THEN /\ out' = o
                    /\ err' = "KeyError"
                    /\ pc' = "crashed"
               ELSE /\ out' = [o EXCEPT !.has = @ \cup {"display_growth"},
                                        !.display_growth =
                                            IF selected_school = ALL THEN growth_combined
                                            ELSE growth_data.tab[selected_school]]
                    /\ err' = err
                    /\ pc' = "done"
    /\ UNCHANGED <<dirExists, dir, idx, env_data, growth_data, excel_file,
                   msgs, selected_school, rs>>

Next ==
    \/ EnvNoDir
    \/ EnvLoadSchool
    \/ GrowthNoDir
    \/ GrowthLocate
    \/ GrowthLoadSheet
    \/ MainGuard
    \/ Sidebar
    \/ Tab1
    \/ Tab2
    \/ Tab3

Spec == Init /\ [][Next]_vars

----------------------------------------------------------------------------
(* One isolated resolution: a candidate name, stored in some encoding, is   *)
(* tested against a target given composed and given decomposed              *)

Resolution(candidate, target) ==
    [phase |-> "done", candidate |-> candidate, target |-> target,
     hitComposed |-> NameMatches(candidate, [target EXCEPT !.form = "NFC"]),
     hitDecomposed |-> NameMatches(candidate, [target EXCEPT !.form = "NFD"])]

\* lines 54-59: a directory entry against a school's environment file name
ResolveEnvFile ==
    /\ rs.phase = "idle"
    /\ \E candidate \in FileNames, s \in SchoolSet :
         rs' = Resolution(candidate, EnvTarget(s))
    /\ UNCHANGED <<dirExists, dir, pc, idx, env_data, growth_data, excel_file,
                   msgs, selected_school, out, err>>

\* lines 89-94: a directory entry against the workbook's name
ResolveWorkbook ==
    /\ rs.phase = "idle"
    /\ \E candidate \in FileNames :
         rs' = Resolution(candidate, BookTarget)
    /\ UNCHANGED <<dirExists, dir, pc, idx, env_data, growth_data, excel_file,
                   msgs, selected_school, out, err>>

\* lines 106-113: a sheet name against a school's name
ResolveSheet ==
    /\ rs.phase = "idle"
    /\ \E candidate \in SheetNames, s \in SchoolSet :
         rs' = Resolution(candidate, SchoolTarget(s))
    /\ UNCHANGED <<dirExists, dir, pc, idx, env_data, growth_data, excel_file,
                   msgs, selected_school, out, err>>

InitResolve ==
    /\ dirExists = FALSE
    /\ dir = <<>>
    /\ pc = "idle"
    /\ idx = 1
    /\ env_data = EmptyDict
    /\ growth_data = EmptyDict
    /\ excel_file = 0
    /\ msgs = <<>>
    /\ selected_school = ALL
    /\ out = NoOut
    /\ err = ""
    /\ rs = [phase |-> "idle"]

NextResolve == ResolveEnvFile \/ ResolveWorkbook \/ ResolveSheet

SpecResolve == InitResolve /\ [][NextResolve]_vars

----------------------------------------------------------------------------
(* Claims *)

\* C1: a candidate name matches a target exactly when the two spell the same
\* text, whatever encoding (composed, decomposed, mixed) the candidate is
\* stored in and whether the target is given composed or decomposed; so the
\* composed and the decomposed target resolve alike, and a different text
\* never matches.
C1_NormalizationInvariant ==
    rs.phase = "done" =>
        /\ rs.hitComposed = rs.hitDecomposed
        /\ rs.hitComposed = (Text(rs.candidate) = Text(rs.target))

\* C1 witness: a decomposed candidate, stored with other code points than the
\* composed target, has matched it
C1_Witness ==
    /\ rs.phase = "done"
    /\ rs.candidate.form = "NFD"
    /\ Text(rs.candidate) = Text(rs.target)
    /\ StoredName[rs.candidate] # StoredName[[rs.target EXCEPT !.form = "NFC"]]
    /\ rs.hitComposed
    /\ rs.hitDecomposed

----------------------------------------------------------------------------
(* What the directory holds, told from the text its names spell and not     *)
(* from the name test                                                       *)

Spells(n, kind, who) == n.kind = kind /\ n.who = who
EnvFilesOf(s) == {k \in 1..Len(dir) : Spells(dir[k].name, "env", s) /\ dir[k].isFile}
ReadableEnvFilesOf(s) == {k \in EnvFilesOf(s) : dir[k].ok}
BookEntries == {k \in 1..Len(dir) : dir[k].name.kind = "book" /\ dir[k].isFile}
PastGuard == {"aborted", "sidebar", "tab1", "tab2", "tab3", "done", "crashed"}
Ended == {"aborted", "done", "crashed"}
Loaded(d) == {d.keys[i] : i \in 1..Len(d.keys)}

\* C2: when either loader's result is empty the run is aborted at the guard
\* with nothing computed (no summary, merge or optimum), and when both hold
\* a group the guard lets the run through.
C2_EmptinessFatal ==
    pc \in PastGuard =>
        /\ (Loaded(env_data) = {} \/ Loaded(growth_data) = {}) <=> (pc = "aborted")
        /\ pc = "aborted" => (out = NoOut /\ err = "")

\* C2 witness: environment data was loaded, growth data is empty, the run
\* was aborted
C2_Witness ==
    /\ pc = "aborted"
    /\ Loaded(env_data) # {}
    /\ Loaded(growth_data) = {}

\* C3: once the environment loader has passed a school, that school is a key
\* of its result exactly when the directory holds a readable file of that
\* school, every row under the key carries the key, and schools not yet
\* passed are no keys; so schools with no (readable) file are exactly the
\* ones omitted, and an omission never keeps a later school from loading.
C3_EnvIsolation ==
    \A i \in 1..Len(Schools) :
        LET s == Schools[i]
            passed == dirExists /\ (pc # "env" \/ i < idx)
        IN /\ InDict(env_data, s) <=> (passed /\ ReadableEnvFilesOf(s) # {})
           /\ InDict(env_data, s) =>
                \A j \in 1..Len(env_data.tab[s]) : env_data.tab[s][j].school = s

\* C3 witness: the loader has finished, an earlier school's only file failed
\* to read and a later school was loaded all the same
C3_Witness ==
    /\ pc = "growth"
    /\ \E i, j \in 1..Len(Schools) :
         /\ i < j
         /\ EnvFilesOf(Schools[i]) # {}
         /\ ~InDict(env_data, Schools[i])
         /\ InDict(env_data, Schools[j])
    /\ \E i \in 1..Len(Schools) :
         EnvFilesOf(Schools[i]) = {} /\ ~InDict(env_data, Schools[i])

\* C4 (as claimed): whenever both loaders return at least one group (here
\* even: growth data with at least one data row), the run ends without an
\* unhandled exception, whatever the sidebar selection and whichever groups
\* are missing.
C4_PartialTolerated ==
    (/\ Loaded(env_data) # {}
     /\ \E s \in Loaded(growth_data) : growth_data.tab[s] # <<>>)
    => err = ""

\* the sources of school g are all absent (no file of its name, no sheet of
\* its name) and every other school was loaded by both loaders with rows
NoSheetOf(g) ==
    \A k \in BookEntries : \A i \in 1..Len(dir[k].sheets) : ~Spells(dir[k].sheets[i].name, "school", g)
OneSourceMissing(g) ==
    /\ dirExists
    /\ EnvFilesOf(g) = {}
    /\ NoSheetOf(g)
    /\ \A h \in SchoolSet \ {g} :
         /\ InDict(env_data, h) /\ env_data.tab[h] # <<>>
         /\ InDict(growth_data, h) /\ growth_data.tab[h] # <<>>

\* the summary rows a school has in any run that loads the same tables of it
EnvRowOf(h) ==
    [school |-> h,
     avg_temperature |->
         Mean([j \in 1..Len(env_data.tab[h]) |-> env_data.tab[h][j].temperature]),
     target_ec |-> SCHOOL_INFO[h].ec]
GrowthRowOf(h) ==
    [EC |-> SCHOOL_INFO[h].ec,
     mean |-> Mean([j \in 1..Len(growth_data.tab[h]) |-> growth_data.tab[h][j].weight]),
     count |-> Len(growth_data.tab[h])]
Occurrences(q, x) == Cardinality({i \in 1..Len(q) : q[i] = x})

\* C5 (as claimed): in a run that has ended with one school's sources absent
\* and the other three present, both summaries exist, neither has a row of
\* the missing school, a warning names it, and each other school has in both
\* summaries exactly the row it has when nothing is missing.
C5_MissingSource ==
    pc \in Ended =>
      \A g \in SchoolSet :
        OneSourceMissing(g) =>
          /\ {"env_summary", "growth_summary"} \subseteq out.has
          /\ \A i \in 1..Len(out.env_summary) : out.env_summary[i].school # g
          /\ \A i \in 1..Len(out.growth_summary) :
                out.growth_summary[i].EC # SCHOOL_INFO[g].ec
          /\ \E i \in 1..Len(msgs) : msgs[i].kind = "warning" /\ msgs[i].about = g
          /\ \A h \in SchoolSet \ {g} :
                /\ Occurrences(out.env_summary, EnvRowOf(h)) = 1
                /\ Occurrences(out.growth_summary, GrowthRowOf(h)) = 1

\* C6 (as claimed): once the loaders have returned, every registered school
\* missing from the environment result has a message of the environment
\* loader about it (or about the data folder), and every registered school
\* missing from the growth result has a message of the growth loader or of
\* main.
C6_OmissionsObservable ==
    pc \in PastGuard =>
      \A s \in SchoolSet :
        /\ ~InDict(env_data, s) =>
             \E i \in 1..Len(msgs) :
                msgs[i].src = "env" /\ msgs[i].about \in {s, "data"}
        /\ ~InDict(growth_data, s) =>
             \E i \in 1..Len(msgs) : msgs[i].src \in {"growth", "main"}

\* C7 (as claimed): in a run that has ended, every school loaded by both
\* loaders (with growth rows) has exactly one row in the environment summary
\* and its level exactly one row in the growth summary.
C7_SummaryMembership ==
    pc \in Ended =>
      \A s \in SchoolSet :
        (InDict(env_data, s) /\ InDict(growth_data, s) /\ growth_data.tab[s] # <<>>)
        => /\ Cardinality({i \in 1..Len(out.env_summary) :
                              out.env_summary[i].school = s}) = 1
           /\ Cardinality({i \in 1..Len(out.growth_summary) :
                              out.growth_summary[i].EC = SCHOOL_INFO[s].ec}) = 1

\* the rule of pickOptimal, stated on the loaded growth data: among the
\* schools with rows, those of maximal mean fresh weight, and of these the
\* first in registry order
GroupMeanOf(s) ==
    Mean([j \in 1..Len(growth_data.tab[s]) |-> growth_data.tab[s][j].weight])
Ranked == {s \in Loaded(growth_data) : growth_data.tab[s] # <<>>}
Best == {s \in Ranked : \A t \in Ranked : MeanLeq(GroupMeanOf(t), GroupMeanOf(s))}
FirstBest ==
    Schools[CHOOSE i \in 1..Len(Schools) :
               /\ Schools[i] \in Best
               /\ \A j \in 1..Len(Schools) : Schools[j] \in Best => i <= j]

\* C8 (as claimed): in a run without an unhandled exception, the optimum of
\* the overview tab and the best level of the growth tab are both the level
\* of the first school, in registry order, among those of maximal mean fresh
\* weight.
C8_PickOptimal ==
    err = "" =>
      /\ "optimal_ec" \in out.has => out.optimal_ec = SCHOOL_INFO[FirstBest].ec
      /\ "best_ec" \in out.has => out.best_ec = SCHOOL_INFO[FirstBest].ec

\* C9 (as claimed): in a run without an unhandled exception, no row of the
\* environment summary belongs to a school whose table has zero data rows;
\* no mean in it is NaN.
C9_ZeroRowExcluded ==
    (err = "" /\ "env_summary" \in out.has) =>
      \A i \in 1..Len(out.env_summary) :
        /\ env_data.tab[out.env_summary[i].school] # <<>>
        /\ ~IsNaN(out.env_summary[i].avg_temperature)

\* the law of merge for a merged table m of the dict d
SumLens(d) == SumSeq([i \in 1..Len(d.keys) |-> Len(d.tab[d.keys[i]])])
MergeLaw(m, d) ==
    /\ Len(m) = SumLens(d)
    /\ \A i \in 1..Len(m) : m[i].school \in Loaded(d)
    /\ \A s \in Loaded(d) : SelectSeq(m, LAMBDA r : r.school = s) = d.tab[s]

\* C10: the merged growth table and the merged environment table (shown for
\* the selection 'all') have as many rows as their per-school tables have
\* together, nothing is dropped as a duplicate, every row carries a loaded
\* school's tag, and the rows of one school are that school's table in order.
C10_MergeRowCount ==
    /\ "growth_combined" \in out.has => MergeLaw(out.growth_combined, growth_data)
    /\ ("display_env" \in out.has /\ selected_school = ALL)
         => MergeLaw(out.display_env, env_data)

\* C10 witness: both merged tables are computed from several schools, and the
\* environment one holds two equal rows
C10_Witness ==
    /\ {"growth_combined", "display_env"} \subseteq out.has
    /\ selected_school = ALL
    /\ Cardinality(Loaded(growth_data)) >= 2
    /\ Cardinality(Loaded(env_data)) >= 2
    /\ Len(out.growth_combined) >= 3
    /\ \E i, j \in 1..Len(out.display_env) :
         i < j /\ out.display_env[i] = out.display_env[j]

----------------------------------------------------------------------------
(* The growth loader's result against the workbook's sheets *)

\* the sheets of the located workbook, none when no workbook was located
BookSheets == IF excel_file = 0 THEN <<>> ELSE dir[excel_file].sheets
\* the sheets the loop of line 105 has passed
PassedSheets == {i \in 1..Len(BookSheets) : i < idx}
\* the passed, readable sheets that spell the name of school s
SheetsSpelling(s) ==
    {i \in PassedSheets : Spells(BookSheets[i].name, "school", s) /\ BookSheets[i].ok}
LastOf(S) == CHOOSE i \in S : \A j \in S : j <= i

\* C11: at every point of the growth loader and after it, every key of its
\* result is a school of the registry; a school is a key exactly when a
\* passed readable sheet spells its name, so sheets of any other name add
\* neither a key nor a row; the rows under a key are the rows of that
\* school's (last) sheet, each carrying the key as its school and the
\* registry's EC level of that school; and when the directory holds no
\* workbook (or does not exist) the result is empty.
C11_GrowthTagging ==
    /\ Loaded(growth_data) \subseteq SchoolSet
    /\ DOMAIN growth_data.tab = Loaded(growth_data)
    /\ \A s \in SchoolSet :
         /\ InDict(growth_data, s) <=> SheetsSpelling(s) # {}
         /\ InDict(growth_data, s) =>
              LET df == growth_data.tab[s]
                  sheet == BookSheets[LastOf(SheetsSpelling(s))]
              IN /\ Len(df) = Len(sheet.rows)
                 /\ \A j \in 1..Len(df) :
                      /\ df[j].school = s
                      /\ df[j].EC = SCHOOL_INFO[s].ec
                      /\ df[j].weight = sheet.rows[j]
    /\ (~dirExists \/ BookEntries = {}) => growth_data = EmptyDict
    /\ (pc \notin {"env", "growth"} /\ (~dirExists \/ BookEntries = {}))
         => excel_file = 0

\* C11 witness: the loader has passed every sheet of a located workbook that
\* holds a sheet of an unregistered name and a decomposed sheet name; a school
\* other than the registry's first was stored with data rows, and a school
\* without a sheet is no key
C11_Witness ==
    /\ pc = "guard"
    /\ excel_file # 0
    /\ PassedSheets = 1..Len(BookSheets)
    /\ \E i \in PassedSheets : BookSheets[i].name.kind = "schoolOther"
    /\ \E i \in PassedSheets :
         /\ BookSheets[i].name.form = "NFD"
         /\ InDict(growth_data, BookSheets[i].name.who)
    /\ \E k \in 2..Len(Schools) :
         /\ InDict(growth_data, Schools[k])
         /\ Len(growth_data.tab[Schools[k]]) >= 2
    /\ \E s \in SchoolSet : ~InDict(growth_data, s)

====
